---- MODULE Spec2Model ----
(***************************************************************************)
(* Approval callback API of the insurance notification agent               *)
(* (src/approval_api.py): the approve / reject / status / pending          *)
(* handlers, the resumption call push_response_to_adk, and the in-memory   *)
(* approval ticket store (approval_manager) they work on.                  *)
(*                                                                         *)
(* The handlers are asyncio coroutines on one event loop: the code between *)
(* two suspension points runs without interleaving.  The only suspension   *)
(* point of a handler is the outbound POST inside push_response_to_adk.    *)
(***************************************************************************)
EXTENDS Integers, Sequences, FiniteSets, TLC

VARIABLES
    approvals,    \* the store: ticket_id -> ApprovalRequest
    next_ticket,  \* number of the next ticket the store hands out
    clock,        \* datetime.now()
    reqs,         \* the HTTP requests, in arrival order; a finished one is blanked
    last,         \* the response most recently sent to an HTTP caller
    decided,      \* per ticket, the outcomes of the requests the store let through
    adk_posts     \* the bodies POSTed to {ADK_API_URL}/run, in order

vars == <<approvals, next_ticket, clock, reqs, last, decided, adk_posts>>

(***************************** bounds **************************************)
MaxTickets == 2
MaxRequests == 3
MaxClock == 7
MaxArrivalClock == 5

(*************************** value domains *********************************)
None == "None"

ticket_name(n) == "TKT-" \o ToString(n)

TicketNames == {ticket_name(n) : n \in 1..MaxTickets}

MissingTicket == "T-missing"

TicketIds == TicketNames \cup {MissingTicket}

\* the ids a caller asks about: those handed out so far, and one never handed out
RequestTargets == {ticket_name(n) : n \in 1..(next_ticket - 1)} \cup {MissingTicket}


\* a dict is a function from its keys; {} is the function with no key
EmptyDict == [k \in {} |-> None]

Session1 ==
    [app_name |-> "insurance_notification", user_id |-> "customer_001",
     session_id |-> "session_001"]

Session2 ==
    [app_name |-> "insurance_notification", user_id |-> "customer_002",
     session_id |-> "session_002"]

\* what the agent's tool may pass when it opens a ticket
TicketInputs ==
    { [claim_id |-> "CLM-001", function_call_id |-> "fc-1", session_info |-> Session1],
      [claim_id |-> "CLM-002", function_call_id |-> None, session_info |-> Session2],
      [claim_id |-> "CLM-002", function_call_id |-> "fc-2", session_info |-> EmptyDict] }

Outcomes == {"200", "500", "timeout", "connect_error"}

dict_get(d, k) == IF k \in DOMAIN d THEN d[k] ELSE None

\* Python truthiness of an optional string / of a dict
falsy_str(s) == s \in {None, ""}

falsy_dict(d) == DOMAIN d = {}

(********************** the approval ticket store **************************)
create_approval(store, tid, claim_id, function_call_id, session_info, now) ==
    [t \in DOMAIN store \cup {tid} |->
        IF t = tid
        THEN [ticket_id |-> tid, claim_id |-> claim_id,
              user_email |-> "user@example.com",
              request_type |-> "claim_verification",
              status |-> "pending", created_at |-> now, updated_at |-> now,
              function_call_id |-> function_call_id,
              metadata |-> [session_info |-> session_info],
              notes |-> None]
        ELSE store[t]]

\* record | not-found, as a sequence of at most one record
get_approval(store, tid) ==
    IF tid \in DOMAIN store THEN <<store[tid]>> ELSE <<>>

\* a faulty variant: the store applies the transition whatever the status is
transition_unguarded(store, tid, new_status, notes, now) ==
    IF tid \notin DOMAIN store
    THEN [store |-> store,
          result |-> [status |-> "error", message |-> "not found",
                      claim_id |-> None]]
    ELSE [store |-> [store EXCEPT ![tid].status = new_status,
                                  ![tid].updated_at = now,
                                  ![tid].notes = notes],
          result |-> [status |-> "success", message |-> new_status,
                      claim_id |-> store[tid].claim_id]]

transition(store, tid, new_status, notes, now) ==
    IF tid \notin DOMAIN store
    THEN [store |-> store,
          result |-> [status |-> "error", message |-> "not found",
                      claim_id |-> None]]
    ELSE IF store[tid].status # "pending"
    THEN [store |-> store,
          result |-> [status |-> "error", message |-> "already terminal",
                      claim_id |-> None]]
    ELSE [store |-> [store EXCEPT ![tid].status = new_status,
                                  ![tid].updated_at = now,
                                  ![tid].notes = notes],
          result |-> [status |-> "success", message |-> new_status,
                      claim_id |-> store[tid].claim_id]]

approve(store, tid, approver_notes, now) ==
    transition(store, tid, "approved", approver_notes, now)

reject(store, tid, rejection_reason, now) ==
    transition(store, tid, "rejected", rejection_reason, now)

RECURSIVE pending_from(_, _)
pending_from(store, n) ==
    IF n = 0 THEN <<>>
    ELSE LET rest == pending_from(store, n - 1)
             tid == ticket_name(n)
         IN IF tid \in DOMAIN store /\ store[tid].status = "pending"
            THEN Append(rest, store[tid]) ELSE rest

\* the pending records, in creation order
get_all_pending(store) == pending_from(store, next_ticket - 1)

(************************** push_response_to_adk ***************************)
\* a faulty variant: only the function-call id is looked at
missing_correlation_id_only(approval_request) ==
    falsy_str(dict_get(approval_request, "function_call_id"))

\* lines 45-50: the correlation data the resumption call needs
missing_correlation(approval_request) ==
    LET session_info == dict_get(dict_get(approval_request, "metadata"), "session_info")
        function_call_id == dict_get(approval_request, "function_call_id")
    IN falsy_str(function_call_id) \/ falsy_dict(session_info)

\* a faulty variant: the function response is filed under the ticket id
build_payload_ticket_as_id(approval_request, approval_status) ==
    LET session_info == dict_get(dict_get(approval_request, "metadata"), "session_info")
    IN [app_name |-> dict_get(session_info, "app_name"),
        user_id |-> dict_get(session_info, "user_id"),
        session_id |-> dict_get(session_info, "session_id"),
        new_message |->
            [role |-> "function",
             parts |-> << [function_response |->
                             [name |-> "request_claim_approval",
                              id |-> dict_get(approval_request, "ticket_id"),
                              response |->
                                [status |-> "success",
                                 approval_status |-> approval_status,
                                 ticket_id |-> dict_get(approval_request, "ticket_id"),
                                 claim_id |-> dict_get(approval_request, "claim_id")]]] >>]]

\* lines 56-81: the body posted to {ADK_API_URL}/run
build_payload(approval_request, approval_status) ==
    LET session_info == dict_get(dict_get(approval_request, "metadata"), "session_info")
        function_call_id == dict_get(approval_request, "function_call_id")
        function_response ==
            [status |-> "success",
             approval_status |-> approval_status,
             ticket_id |-> dict_get(approval_request, "ticket_id"),
             claim_id |-> dict_get(approval_request, "claim_id")]
    IN [app_name |-> dict_get(session_info, "app_name"),
        user_id |-> dict_get(session_info, "user_id"),
        session_id |-> dict_get(session_info, "session_id"),
        new_message |->
            [role |-> "function",
             parts |-> << [function_response |->
                             [name |-> "request_claim_approval",
                              id |-> function_call_id,
                              response |-> function_response]] >>]]

\* a faulty variant: without the except clause of lines 98-102 a timeout or
\* a connection error leaves push_response_to_adk as an exception
push_result_uncaught(outcome) ==
    IF outcome = "200" THEN "True"
    ELSE IF outcome = "500" THEN "False"
    ELSE "raised"

\* lines 91-102: the value push_response_to_adk returns for an outcome of the POST
push_result(outcome) == IF outcome = "200" THEN "True" ELSE "False"

\* time passes with every step; the model stops at MaxClock
tick == clock < MaxClock /\ clock' = clock + 1

\* a request that was accepted runs to its end: under LiveSpec its later
\* steps are taken at any time, and the clock stops counting at MaxClock
tock == clock' = IF clock < MaxClock THEN clock + 1 ELSE clock

(****************************** handlers ***********************************)
NoBody == [kind |-> "none"]

new_request(kind, tid) ==
    [kind |-> kind, ticket_id |-> tid, pc |-> "done", status_code |-> 0,
     body |-> NoBody, transitioned |-> FALSE, approval_status |-> None,
     payload |-> NoBody, pushed |-> FALSE, outcome |-> None,
     push_value |-> None]

\* a request whose response has been sent
Finished == new_request(None, None)

\* raise HTTPException(status_code=code)
http_error(kind, tid, code) ==
    [new_request(kind, tid) EXCEPT !.status_code = code,
                                   !.body = [kind |-> "error"]]

\* lines 145-198 / 227-283: return HTMLResponse(content=html_content)
confirmation_page(req, approval_status) ==
    [req EXCEPT !.pc = "done", !.status_code = 200,
                !.body = [kind |-> "html", page |-> approval_status,
                          ticket_id |-> req.ticket_id]]

\* a faulty variant: the store's result is not looked at
result_never_error(result) == FALSE

\* lines 138-139 / 220-221: an error result of the store becomes HTTP 404
result_is_error(result) == result.status = "error"

\* a faulty variant: the resumption call is prepared before the result is looked at
decide_push_first(store, kind, tid, approval_status, result) ==
    LET found == get_approval(store, tid) IN
    IF Len(found) = 0 THEN http_error(kind, tid, 404)
    ELSE LET approval_dict == found[1]
             req == [new_request(kind, tid) EXCEPT
                        !.transitioned = (result.status = "success"),
                        !.approval_status = approval_status]
         IN IF missing_correlation(approval_dict)
            THEN IF result_is_error(result) THEN http_error(kind, tid, 404)
                 ELSE [confirmation_page(req, approval_status) EXCEPT !.push_value = "False"]
            ELSE [req EXCEPT !.pc = "posting",
                             !.payload = build_payload(approval_dict, approval_status)]

\* approve_request / reject_request up to the POST (lines 127-142 and 44-89):
\* the request as it stands when the handler first suspends or returns
decide(store, kind, tid, approval_status, result) ==
    LET found == get_approval(store, tid) IN
    IF Len(found) = 0 THEN http_error(kind, tid, 404)
    ELSE IF result_is_error(result) THEN http_error(kind, tid, 404)
    ELSE LET approval_dict == found[1]
             req == [new_request(kind, tid) EXCEPT
                        !.transitioned = (result.status = "success"),
                        !.approval_status = approval_status]
         IN IF missing_correlation(approval_dict)
            THEN [confirmation_page(req, approval_status) EXCEPT !.push_value = "False"]
            ELSE [req EXCEPT !.pc = "posting",
                             !.payload = build_payload(approval_dict, approval_status)]

\* a faulty variant: the status is not written before the resumption call
store_after_deferred(store, tid, tr) == store

\* the store is reached only past the not-found check of lines 128-129
store_after(store, tid, tr) ==
    IF Len(get_approval(store, tid)) = 0 THEN store ELSE tr.store

decided_after(store, tid, tr, approval_status) ==
    IF Len(get_approval(store, tid)) # 0 /\ tr.result.status = "success"
    THEN [decided EXCEPT ![tid] = Append(@, approval_status)]
    ELSE decided

\* the handler returned (its response is sent) or is suspended in the POST
arrive(req) ==
    IF req.pc = "done"
    THEN /\ reqs' = Append(reqs, Finished)
         /\ last' = req
    ELSE /\ reqs' = Append(reqs, req)
         /\ last' = last

\* a faulty variant: the approve handler sends the reject handler's outcome
approve_request_pasted(tid) ==
    /\ Len(reqs) < MaxRequests
    /\ LET tr == approve(approvals, tid, "Approved via email link", clock) IN
        /\ approvals' = store_after(approvals, tid, tr)
        /\ decided' = decided_after(approvals, tid, tr, "approved")
        /\ arrive(decide(approvals, "approve", tid, "rejected", tr.result))
    /\ tick
    /\ UNCHANGED <<next_ticket, adk_posts>>

approve_request(tid) ==
    /\ Len(reqs) < MaxRequests
    /\ LET tr == approve(approvals, tid, "Approved via email link", clock) IN
        /\ approvals' = store_after(approvals, tid, tr)
        /\ decided' = decided_after(approvals, tid, tr, "approved")
        /\ arrive(decide(approvals, "approve", tid, "approved", tr.result))
    /\ tick
    /\ UNCHANGED <<next_ticket, adk_posts>>

reject_request(tid) ==
    /\ Len(reqs) < MaxRequests
    /\ LET tr == reject(approvals, tid, "Rejected via email link", clock) IN
        /\ approvals' = store_after(approvals, tid, tr)
        /\ decided' = decided_after(approvals, tid, tr, "rejected")
        /\ arrive(decide(approvals, "reject", tid, "rejected", tr.result))
    /\ tick
    /\ UNCHANGED <<next_ticket, adk_posts>>

\* line 89: the POST to {ADK_API_URL}/run leaves the process
send_post(r) ==
    /\ r \in 1..Len(reqs)
    /\ reqs[r].pc = "posting"
    /\ adk_posts' = Append(adk_posts, reqs[r].payload)
    /\ reqs' = [reqs EXCEPT ![r].pc = "awaiting", ![r].pushed = TRUE]
    /\ UNCHANGED <<approvals, next_ticket, last, decided>>

client_post(r) == send_post(r) /\ tick

client_post_resumed(r) == send_post(r) /\ tock

\* a faulty variant: a failed delivery is reported to the HTTP caller
after_push_checked(req, outcome, pushed_ok) ==
    IF pushed_ok = "True"
    THEN [confirmation_page(req, req.approval_status) EXCEPT
             !.outcome = outcome, !.push_value = pushed_ok]
    ELSE [req EXCEPT !.pc = "done", !.status_code = 502,
                     !.body = [kind |-> "error"], !.outcome = outcome,
                     !.push_value = pushed_ok]

\* what the handler answers once push_response_to_adk has returned pushed_ok
\* (line 142 / 224 discards the value)
after_push(req, outcome, pushed_ok) ==
    [confirmation_page(req, req.approval_status) EXCEPT
        !.outcome = outcome, !.push_value = pushed_ok]

\* a faulty variant: the client is built without a timeout (timeout=None)
post_can_end_unbounded(outcome) == outcome # "timeout"

\* line 88: httpx.AsyncClient(timeout=30.0): the wait for the runtime ends
\* by an answer, by a connection error, or by the timeout
post_can_end(outcome) == outcome \in Outcomes

\* lines 89-102 and 144-198 / 226-283: the POST ends (answer, timeout or
\* connection error) and the handler returns its page
end_post(r, outcome) ==
    /\ r \in 1..Len(reqs)
    /\ reqs[r].pc = "awaiting"
    /\ post_can_end(outcome)
    /\ last' = after_push(reqs[r], outcome, push_result(outcome))
    /\ reqs' = [reqs EXCEPT ![r] = Finished]
    /\ UNCHANGED <<approvals, next_ticket, decided, adk_posts>>

post_returns(r, outcome) == end_post(r, outcome) /\ tick

post_returns_resumed(r, outcome) == end_post(r, outcome) /\ tock

status_body(request) ==
    [kind |-> "status",
     ticket_id |-> request.ticket_id, claim_id |-> request.claim_id,
     status |-> request.status, request_type |-> request.request_type,
     created_at |-> request.created_at, updated_at |-> request.updated_at]

\* a faulty variant: an unknown ticket is answered with an empty status
get_status_response_no_404(store, tid) ==
    LET found == get_approval(store, tid) IN
    [new_request("status", tid) EXCEPT
        !.status_code = 200,
        !.body = IF Len(found) = 0 THEN [kind |-> "status", status |-> "pending"]
                 ELSE status_body(found[1])]

get_status_response(store, tid) ==
    LET found == get_approval(store, tid) IN
    IF Len(found) = 0 THEN http_error("status", tid, 404)
    ELSE [new_request("status", tid) EXCEPT
             !.status_code = 200, !.body = status_body(found[1])]

\* a faulty variant: reading the status stamps the record
get_status_touching(tid) ==
    /\ Len(reqs) < MaxRequests
    /\ arrive(get_status_response(approvals, tid))
    /\ approvals' = IF tid \in DOMAIN approvals
                    THEN [approvals EXCEPT ![tid].updated_at = clock]
                    ELSE approvals
    /\ tick
    /\ UNCHANGED <<next_ticket, decided, adk_posts>>

get_status(tid) ==
    /\ Len(reqs) < MaxRequests
    /\ arrive(get_status_response(approvals, tid))
    /\ tick
    /\ UNCHANGED <<approvals, next_ticket, decided, adk_posts>>

pending_entry(req) ==
    [ticket_id |-> req.ticket_id, claim_id |-> req.claim_id,
     user_email |-> req.user_email, request_type |-> req.request_type,
     created_at |-> req.created_at]

\* a faulty variant: the last pending record is left out of the list
pending_body_short(pending) ==
    [kind |-> "pending",
     count |-> Len(pending),
     pending_approvals |->
        [i \in 1..(IF Len(pending) = 0 THEN 0 ELSE Len(pending) - 1) |->
            pending_entry(pending[i])]]

pending_body(pending) ==
    [kind |-> "pending",
     count |-> Len(pending),
     pending_approvals |-> [i \in 1..Len(pending) |-> pending_entry(pending[i])]]

get_pending_approvals ==
    /\ Len(reqs) < MaxRequests
    /\ arrive([new_request("pending", None) EXCEPT
                  !.status_code = 200,
                  !.body = pending_body(get_all_pending(approvals))])
    /\ tick
    /\ UNCHANGED <<approvals, next_ticket, decided, adk_posts>>

\* the agent's tool opens a ticket (approval_manager.create)
create_ticket(in) ==
    /\ next_ticket <= MaxTickets
    /\ approvals' = create_approval(approvals, ticket_name(next_ticket), in.claim_id,
                                    in.function_call_id, in.session_info, clock)
    /\ next_ticket' = next_ticket + 1
    /\ tick
    /\ UNCHANGED <<reqs, last, decided, adk_posts>>

Init ==
    /\ approvals = EmptyDict
    /\ next_ticket = 1
    /\ clock = 1
    /\ reqs = <<>>
    /\ last = Finished
    /\ decided = [t \in TicketIds |-> <<>>]
    /\ adk_posts = <<>>

Next ==
    \/ \E in \in TicketInputs : create_ticket(in)
    \/ \E t \in RequestTargets : approve_request(t)
    \/ \E t \in RequestTargets : reject_request(t)
    \/ \E t \in RequestTargets : get_status(t)
    \/ get_pending_approvals
    \/ \E r \in 1..MaxRequests : client_post(r)
    \/ \E r \in 1..MaxRequests, o \in Outcomes : post_returns(r, o)

Spec == Init /\ [][Next]_vars

\* the event loop resumes a handler that is ready to send its POST, and the
\* client's timeout fires if nothing else ends the POST; nothing is assumed
\* of the agent runtime, which may never answer
\* requests and tickets arrive while clock < MaxArrivalClock; the requests
\* accepted by then run on
LiveNext ==
    \/ clock < MaxArrivalClock /\ \E in \in TicketInputs : create_ticket(in)
    \/ clock < MaxArrivalClock /\ \E t \in RequestTargets : approve_request(t)
    \/ clock < MaxArrivalClock /\ \E t \in RequestTargets : reject_request(t)
    \/ clock < MaxArrivalClock /\ \E t \in RequestTargets : get_status(t)
    \/ clock < MaxArrivalClock /\ get_pending_approvals
    \/ \E r \in 1..MaxRequests : client_post_resumed(r)
    \/ \E r \in 1..MaxRequests, o \in Outcomes : post_returns_resumed(r, o)

LiveSpec ==
    /\ Init
    /\ [][LiveNext]_vars
    /\ \A r \in 1..MaxRequests :
        /\ WF_vars(client_post_resumed(r))
        /\ WF_vars(post_returns_resumed(r, "timeout"))

(*************************** observations **********************************)
Terminal == {"approved", "rejected"}

Statuses == {"pending"} \cup Terminal

Tickets == DOMAIN approvals

InFlight == {r \in 1..Len(reqs) : reqs[r].pc \in {"posting", "awaiting"}}

\* this step is the arrival of an HTTP request
arrived == Len(reqs') = Len(reqs) + 1

\* the request that arrived in this step, as its handler left it
newreq == IF reqs'[Len(reqs')] = Finished THEN last' ELSE reqs'[Len(reqs')]

function_response_of(payload) == payload.new_message.parts[1].function_response

posted_ticket(payload) == function_response_of(payload).response.ticket_id

\* the POSTs made to the agent runtime on behalf of ticket t
posts_for(t) == {i \in 1..Len(adk_posts) : posted_ticket(adk_posts[i]) = t}

\* the requests about to make such a POST
posting_for(t) == {r \in 1..Len(reqs) : reqs[r].pc = "posting" /\ reqs[r].ticket_id = t}

endpoint_status(kind) == IF kind = "approve" THEN "approved" ELSE "rejected"

failed_delivery == {"500", "timeout", "connect_error"}

no_function_call_id(t) == approvals[t].function_call_id = None

no_session_info(t) == approvals[t].metadata.session_info = EmptyDict

(******************************* claims ************************************)
\* C1: a ticket starts pending, leaves pending at most once and only for
\* approved or rejected, and once it is terminal no step changes its status
\* or its updated_at.
C1_TransitionAtMostOnce ==
    [][ /\ \A t \in Tickets' \ Tickets : approvals'[t].status = "pending"
        /\ \A t \in Tickets :
            /\ t \in Tickets'
            /\ approvals'[t].status # approvals[t].status =>
                   approvals[t].status = "pending" /\ approvals'[t].status \in Terminal
            /\ approvals[t].status \in Terminal =>
                   /\ approvals'[t].status = approvals[t].status
                   /\ approvals'[t].updated_at = approvals[t].updated_at ]_vars

\* create T1, approve T1, reject T1: the reject was answered and T1 is approved
C1_Witness ==
    \E t \in Tickets :
        /\ approvals[t].status = "approved"
        /\ decided[t] = <<"approved">>
        /\ last.kind = "reject" /\ last.ticket_id = t

\* C2: for every ticket at most one resumption call is made or about to be
\* made, and a request is in the resumption call only if it performed the
\* ticket's transition out of pending.
C2_ResumptionAtMostOnce ==
    /\ \A t \in TicketIds : Cardinality(posts_for(t)) + Cardinality(posting_for(t)) <= 1
    /\ \A r \in InFlight :
        /\ reqs[r].transitioned
        /\ decided[reqs[r].ticket_id] = <<reqs[r].approval_status>>

\* a repeated approve was answered after the first one's POST had been made
C2_Witness ==
    \E t \in Tickets :
        /\ Cardinality(posts_for(t)) = 1
        /\ last.kind = "approve" /\ last.ticket_id = t /\ ~last.transitioned

\* C3: an approve or reject request for an existing ticket that is already
\* terminal is answered with the confirmation page, not with an error.
C3_TerminalRepeatConfirmed ==
    ( /\ last.kind \in {"approve", "reject"}
      /\ last.ticket_id \in Tickets
      /\ ~last.transitioned )
    => (last.status_code = 200 /\ last.body.kind = "html")

\* C4: a request for a ticket id that was never created is answered 404 at
\* once, and the step changes neither the store nor the calls made to the
\* agent runtime; the id never enters the store.
C4_UnknownTicketNotFound ==
    /\ [](MissingTicket \notin Tickets /\ posts_for(MissingTicket) = {})
    /\ [][ ( /\ arrived
             /\ newreq.kind \in {"approve", "reject", "status"}
             /\ newreq.ticket_id \notin Tickets )
           => ( /\ newreq.pc = "done"
                /\ newreq.status_code = 404
                /\ approvals' = approvals
                /\ decided' = decided
                /\ adk_posts' = adk_posts ) ]_vars

\* with a ticket in the store, a status request for the unknown id was answered 404
C4_Witness ==
    /\ Tickets # {}
    /\ last.ticket_id = MissingTicket
    /\ last.kind = "status"
    /\ last.status_code = 404
    /\ Len(reqs) >= 2

\* C5: when the resumption call fails, the caller still gets the
\* confirmation page and the ticket keeps the status the request gave it.
C5_DeliveryFailureKeepsStatus ==
    last.outcome \in failed_delivery =>
        /\ last.status_code = 200
        /\ last.body.kind = "html"
        /\ last.body.page = endpoint_status(last.kind)
        /\ last.ticket_id \in Tickets
        /\ approvals[last.ticket_id].status = endpoint_status(last.kind)

\* a reject whose POST timed out
C5_Witness ==
    /\ last.outcome = "timeout"
    /\ last.kind = "reject"
    /\ approvals[last.ticket_id].status = "rejected"

\* C6: a ticket without function_call_id or without session_info never has
\* a call made to the agent runtime, and an approve or reject request that
\* finds it pending performs the transition and is answered with the
\* confirmation page at once.
C6_MissingCorrelationSkipsCall ==
    /\ [](\A t \in Tickets :
            (no_function_call_id(t) \/ no_session_info(t)) =>
                /\ posts_for(t) = {}
                /\ \A r \in InFlight : reqs[r].ticket_id # t)
    /\ [][ ( /\ arrived
             /\ newreq.kind \in {"approve", "reject"}
             /\ newreq.ticket_id \in Tickets
             /\ approvals[newreq.ticket_id].status = "pending"
             /\ (no_function_call_id(newreq.ticket_id) \/ no_session_info(newreq.ticket_id)) )
           => ( /\ approvals'[newreq.ticket_id].status = endpoint_status(newreq.kind)
                /\ newreq.pc = "done"
                /\ newreq.status_code = 200
                /\ newreq.body.kind = "html"
                /\ adk_posts' = adk_posts ) ]_vars

\* a ticket without session_info was approved and the caller got the page
C6_Witness ==
    /\ last.kind = "approve"
    /\ last.status_code = 200
    /\ last.ticket_id \in Tickets
    /\ no_session_info(last.ticket_id)
    /\ ~no_function_call_id(last.ticket_id)
    /\ approvals[last.ticket_id].status = "approved"
    /\ adk_posts = <<>>

\* C7: however approve, reject and status requests interleave, at most one
\* request performs a ticket's transition, the stored status is that
\* request's outcome (pending if there is none), every request that went on
\* past the transition agrees with the stored status, and a status request
\* only ever reports pending, approved or rejected.
C7_AtomicTransition ==
    /\ \A t \in Tickets :
        /\ approvals[t].status \in Statuses
        /\ Len(decided[t]) <= 1
        /\ approvals[t].status = IF decided[t] = <<>> THEN "pending" ELSE decided[t][1]
    /\ \A r \in InFlight :
        approvals[reqs[r].ticket_id].status = endpoint_status(reqs[r].kind)
    /\ (last.kind \in {"approve", "reject"} /\ last.status_code = 200) =>
        approvals[last.ticket_id].status = endpoint_status(last.kind)
    /\ (last.kind = "status" /\ last.status_code = 200) =>
        last.body.status \in Statuses

\* an approve is suspended in its POST and a reject of the same ticket has lost
C7_Witness ==
    \E r \in InFlight :
        /\ reqs[r].kind = "approve"
        /\ last.kind = "reject"
        /\ last.ticket_id = reqs[r].ticket_id
        /\ last.status_code = 404
        /\ approvals[reqs[r].ticket_id].status = "approved"

\* C8: GET /api/pending lists exactly the tickets whose status is pending,
\* each once, and its count is the length of the list.
C8_PendingListExact ==
    [][ (arrived /\ newreq.kind = "pending") =>
          LET listed == newreq.body.pending_approvals IN
          /\ newreq.status_code = 200
          /\ {listed[i].ticket_id : i \in 1..Len(listed)}
                = {t \in Tickets : approvals[t].status = "pending"}
          /\ Cardinality({listed[i].ticket_id : i \in 1..Len(listed)}) = Len(listed)
          /\ newreq.body.count = Len(listed) ]_vars

\* two tickets, one approved: the list holds exactly the other
C8_Witness ==
    /\ last.kind = "pending"
    /\ last.body.count = 1
    /\ Cardinality(Tickets) = 2
    /\ \E t \in Tickets : approvals[t].status = "approved"
    /\ \E t \in Tickets :
        /\ approvals[t].status = "pending"
        /\ last.body.pending_approvals[1].ticket_id = t

\* C9: a step changes a record of the store only by taking its status out
\* of pending; status and pending requests, requests answered 404 and the
\* steps of the resumption call leave the whole store as it is.
C9_UpdatedAtOnlyOnTransition ==
    [][ /\ \A t \in Tickets :
            approvals'[t] # approvals[t] =>
                approvals[t].status = "pending" /\ approvals'[t].status \in Terminal
        /\ (arrived /\ (newreq.kind \in {"status", "pending"} \/ newreq.status_code = 404))
              => approvals' = approvals
        /\ (~arrived /\ next_ticket' = next_ticket) => approvals' = approvals ]_vars

\* a status request reported an updated_at that a transition had stamped
C9_Witness ==
    /\ last.kind = "status"
    /\ last.status_code = 200
    /\ last.body.status = "rejected"
    /\ last.body.updated_at > last.body.created_at
    /\ last.body.updated_at = approvals[last.ticket_id].updated_at

\* C10: every resumption payload carries the session, the function-call id,
\* the ticket id and the claim id of the ticket it is about, and the
\* approval_status of the endpoint that was called.
payload_matches(payload, t, kind) ==
    LET fr == function_response_of(payload) IN
    /\ t \in Tickets
    /\ payload.app_name = dict_get(approvals[t].metadata.session_info, "app_name")
    /\ payload.user_id = dict_get(approvals[t].metadata.session_info, "user_id")
    /\ payload.session_id = dict_get(approvals[t].metadata.session_info, "session_id")
    /\ payload.app_name # None /\ payload.user_id # None /\ payload.session_id # None
    /\ payload.new_message.role = "function"
    /\ fr.name = "request_claim_approval"
    /\ fr.id = approvals[t].function_call_id
    /\ fr.response.ticket_id = approvals[t].ticket_id
    /\ fr.response.claim_id = approvals[t].claim_id
    /\ fr.response.approval_status = endpoint_status(kind)

C10_PayloadCarriesCorrelation ==
    /\ \A r \in InFlight : payload_matches(reqs[r].payload, reqs[r].ticket_id, reqs[r].kind)
    /\ \A i \in 1..Len(adk_posts) :
        /\ posted_ticket(adk_posts[i]) \in Tickets
        /\ \E kind \in {"approve", "reject"} :
            /\ payload_matches(adk_posts[i], posted_ticket(adk_posts[i]), kind)
            /\ approvals[posted_ticket(adk_posts[i])].status = endpoint_status(kind)
    /\ last.pushed => payload_matches(last.payload, last.ticket_id, last.kind)

\* a reject was posted and answered 200 by the runtime
C10_Witness ==
    /\ last.kind = "reject"
    /\ last.outcome = "200"
    /\ Len(adk_posts) = 1
    /\ function_response_of(adk_posts[1]).response.approval_status = "rejected"
    /\ function_response_of(adk_posts[1]).id = "fc-1"

\* C11: every HTTP request that has arrived is eventually answered: an
\* approve or reject request suspended in the resumption call is resumed
\* when the POST ends, at the latest by the client's timeout, whether or not
\* the agent runtime ever answers.
C11_EveryRequestAnswered ==
    \A r \in 1..MaxRequests :
        (r <= Len(reqs)) ~> (r <= Len(reqs) /\ reqs[r] = Finished)

\* an approve whose POST the runtime never answered got its page on the timeout
C11_Witness ==
    /\ last.kind = "approve"
    /\ last.pushed
    /\ last.outcome = "timeout"
    /\ last.status_code = 200
    /\ InFlight = {}

\* C12: push_response_to_adk always returns True or False to the handler,
\* never an exception: True exactly when the POST was made and answered
\* 200; False when the correlation data is missing (no POST), when the
\* runtime answers another status, on a timeout and on a connection error.
C12_PushReturnsBoolean ==
    /\ (last.kind \in {"approve", "reject"} /\ last.transitioned)
          => last.push_value \in {"True", "False"}
    /\ last.push_value # None =>
        /\ last.push_value \in {"True", "False"}
        /\ last.push_value = "True" <=> (last.pushed /\ last.outcome = "200")
        /\ last.pushed <=> last.outcome \in Outcomes
        /\ last.ticket_id \in Tickets
        /\ (no_function_call_id(last.ticket_id) \/ no_session_info(last.ticket_id))
              => (last.push_value = "False" /\ ~last.pushed)

\* the POST failed to connect and the handler was handed False
C12_Witness ==
    /\ last.outcome = "connect_error"
    /\ last.pushed
    /\ last.push_value = "False"
    /\ last.status_code = 200

\* C13: the approval_status of every resumption call, sent or about to be
\* sent, is the stored status of its ticket, in the state where it is sent
\* and in every later state.
C13_SentStatusIsStoredStatus ==
    /\ \A i \in 1..Len(adk_posts) :
        /\ posted_ticket(adk_posts[i]) \in Tickets
        /\ function_response_of(adk_posts[i]).response.approval_status
              = approvals[posted_ticket(adk_posts[i])].status
    /\ \A r \in InFlight :
        function_response_of(reqs[r].payload).response.approval_status
            = approvals[reqs[r].ticket_id].status

\* the runtime was told "approved", then a reject of the same ticket was refused
C13_Witness ==
    /\ Len(adk_posts) = 1
    /\ function_response_of(adk_posts[1]).response.approval_status = "approved"
    /\ last.kind = "reject"
    /\ last.ticket_id = posted_ticket(adk_posts[1])
    /\ last.status_code = 404
    /\ approvals[last.ticket_id].status = "approved"

\* C14: a ticket whose resumption call is sent or about to be sent has
\* already left pending, and a status request answered from then on does
\* not report pending for it.
C14_TransitionBeforePost ==
    /\ [](\A t \in Tickets :
            (posts_for(t) # {} \/ posting_for(t) # {}) => approvals[t].status \in Terminal)
    /\ [][ ( /\ arrived
             /\ newreq.kind = "status"
             /\ newreq.status_code = 200
             /\ (posts_for(newreq.ticket_id) # {} \/ posting_for(newreq.ticket_id) # {}) )
           => newreq.body.status \in Terminal ]_vars

\* while the POST for a ticket was outstanding, a status request saw it approved
C14_Witness ==
    \E r \in InFlight :
        /\ reqs[r].pc = "awaiting"
        /\ last.kind = "status"
        /\ last.status_code = 200
        /\ last.ticket_id = reqs[r].ticket_id
        /\ last.body.status = "approved"

====
